---- MODULE Spec2Model ----
(***************************************************************************)
(* Multi-source access orchestration of src/scraping:                      *)
(*   SmartAccessManager.search_database / batch_search and its success-    *)
(*   rate tracker and result ranker (smart_access_manager.py), and the     *)
(*   older api_integration.batch_search.                                   *)
(*                                                                         *)
(* Numbers: a relevanceScore is kept in tenths (9 is 0.9, 5 is 0.5); a     *)
(* success rate is the fraction [num, den] that success / total computes,  *)
(* compared by cross-multiplication.                                       *)
(***************************************************************************)
EXTENDS Integers, Sequences, FiniteSets, TLC

\* ------------------------------------------------------------------ bounds
MaxSources == 2
MaxWorkers == 2
MaxLen == 3
MaxRequests == 6
MaxRetries == 6
MaxTime == 140
ClockStep == 20
MaxScrapes == 3

\* ------------------------------------------------- configuration, registry
DbIds == {"pubmed", "fda-drugs", "tga-cmi", "medsafe"}

Methods == {"api", "browser", "selenium", "browser_automation"}

ACCESS_METHODS ==
  [db \in DbIds |->
     CASE db = "pubmed"    -> <<"api", "browser", "selenium">>
       [] db = "fda-drugs" -> <<"api", "browser">>
       [] db = "tga-cmi"   -> <<"browser", "selenium">>
       [] db = "medsafe"   -> <<"browser">>]

get_access_methods(database_id) ==
  IF database_id \in DOMAIN ACCESS_METHODS
    THEN ACCESS_METHODS[database_id]
    ELSE <<"browser">>

API_MODULES ==
  [db \in DbIds |->
     CASE db = "pubmed"    -> {"api", "browser"}
       [] db = "fda-drugs" -> {"api"}
       [] db = "tga-cmi"   -> {"browser", "selenium", "browser_automation"}
       [] db = "medsafe"   -> {}]

api_modules == {"pubmed", "fda-drugs", "tga-cmi"}

\* ------------------------------------------------------------------ records
\* a relevanceScore: a number (in tenths), a value of another type, or no key
Score(v) == [kind |-> "number", v |-> v]

NonNumeric == [kind |-> "other", v |-> 0]

Missing == [kind |-> "missing", v |-> 0]

DefaultScore == 5

Record(db, m, n, s) == [db |-> db, method |-> m, n |-> n, relevanceScore |-> s]

\* line 393
IsNumeric(s) == s.kind = "number"

\* an element that is no dict (None, a string): it has no relevanceScore to
\* read or to fill
NotADict == [kind |-> "not a dict", v |-> 0]

\* lines 392-394 raise TypeError on an element that is no dict
SortRaises(rs) == \E i \in 1..Len(rs) : rs[i].relevanceScore = NotADict

\* a missing score filled with 0, the default of the sort key in line 396
FillScore_zero(r) ==
  IF r.relevanceScore.kind = "number" THEN r
  ELSE [r EXCEPT !.relevanceScore = Score(0)]

\* lines 392-394: the in-place fill of relevanceScore
FillScore(r) ==
  IF IsNumeric(r.relevanceScore) THEN r
  ELSE [r EXCEPT !.relevanceScore = Score(DefaultScore)]

\* a/b as a pair; floats are compared by cross-multiplication
Quotient(s, t) == [num |-> s, den |-> t]

RateGeq(a, b) == a.num * b.den >= b.num * a.den

\* sorted(..., reverse=True) is stable: element j stands before element i when
\* its key compares above i's, or when the keys are equal and j came first
StandsBefore(s, j, i) ==
  \/ ~RateGeq(s[i].key, s[j].key)
  \/ RateGeq(s[j].key, s[i].key) /\ j < i

InsertDesc(s, i) == 1 + Cardinality({j \in DOMAIN s : StandsBefore(s, j, i)})

SortedDesc(s) ==
  [n \in DOMAIN s |-> s[CHOOSE i \in DOMAIN s : InsertDesc(s, i) = n]]

\* line 396: the key of sorted, a score in tenths
ScoreKey(r) == Quotient(r.relevanceScore.v, 10)

\* the records handed back in the order they came in
_sort_results_unsorted(rs) == rs

_sort_results(rs) ==
  LET keyed == [i \in 1..Len(rs) |->
                  [key |-> ScoreKey(FillScore(rs[i])), val |-> FillScore(rs[i])]]
      order == SortedDesc(keyed)
  IN  [n \in 1..Len(rs) |-> order[n].val]

\* ------------------------------------------------------------------ tracker
Half == [num |-> 1, den |-> 2]

\* one (db_id, method) slot of self.success_rates: no entry, the stats dict
\* that _update_success_rate keeps, or a bare number read from the file
NoStats == [kind |-> "absent", success |-> 0, total |-> 0, rate |-> Half]

Stats(s, t) == [kind |-> "stats", success |-> s, total |-> t, rate |-> Quotient(s, t)]

BareNumber == [kind |-> "number", success |-> 0, total |-> 0, rate |-> Half]

\* lines 338-342
NewStats == [kind |-> "stats", success |-> 0, total |-> 0, rate |-> Half]

EmptyRates == [db \in DbIds |-> [m \in Methods |-> NoStats]]

\* line 321: the sort key of one method
RateKey(rates, db_id, m) ==
  IF rates[db_id][m].kind = "stats" THEN rates[db_id][m].rate ELSE Half

\* line 321: the keys that sorted() computes, one per method, before it sorts
RateKeys(rates, db_id, methods) ==
  [i \in 1..Len(methods) |-> RateKey(rates, db_id, methods[i])]

\* ties in reverse: the stable sort applied to the list read backwards
SortedByKeys_ties_reversed(methods, ks) ==
  LET last == Len(methods) + 1
      keyed == [i \in 1..Len(methods) |->
                  [key |-> ks[last - i], val |-> methods[last - i]]]
      order == SortedDesc(keyed)
  IN  [n \in 1..Len(methods) |-> order[n].val]

\* line 321: sorted(methods, key=..., reverse=True) once the keys are known
SortedByKeys(methods, ks) ==
  LET keyed == [i \in 1..Len(methods) |-> [key |-> ks[i], val |-> methods[i]]]
      order == SortedDesc(keyed)
  IN  [n \in 1..Len(methods) |-> order[n].val]

_sort_methods_by_success_rate(rates, db_id, methods) ==
  SortedByKeys(methods, RateKeys(rates, db_id, methods))

\* the counts updated and the rate left as it was
_update_success_rate_rate_kept(rates, db_id, method, success) ==
  LET e0 == IF rates[db_id][method].kind = "absent" THEN NewStats
            ELSE rates[db_id][method]
  IN  [rates EXCEPT ![db_id][method] =
         [kind |-> "stats",
          success |-> IF success THEN e0.success + 1 ELSE e0.success,
          total |-> e0.total + 1,
          rate |-> e0.rate]]

\* lines 333-351 run without interruption; defined where line 345 finds a dict
_update_success_rate(rates, db_id, method, success) ==
  LET e0 == IF rates[db_id][method].kind = "absent" THEN NewStats
            ELSE rates[db_id][method]
      s1 == IF success THEN e0.success + 1 ELSE e0.success
      t1 == e0.total + 1
  IN  [rates EXCEPT ![db_id][method] =
         [kind |-> "stats", success |-> s1, total |-> t1, rate |-> Quotient(s1, t1)]]

\* line 333: db_id has no dict in self.success_rates
NoDict(rates, db_id) == \A m \in Methods : rates[db_id][m].kind = "absent"

\* lines 334, 338-343: the dict of db_id made anew, with the one entry
NewDict(method) == [m \in Methods |-> IF m = method THEN NewStats ELSE NoStats]

\* lines 347-348 raise TypeError when the slot holds a bare number
UpdateRaises(rates, db_id, method) == rates[db_id][method].kind = "number"

\* success_rates.json: absent, unreadable (not JSON, or cut short by a failed
\* write), or the object that json.dump has written, one entry per slot
NoFile == [state |-> "missing", entries |-> {}]

CorruptFile == [state |-> "corrupt", entries |-> {}]

\* line 377: the nested dict as JSON; a slot without stats has no key
json_dump(rates) ==
  [state |-> "json",
   entries |-> {[db_id |-> db, method |-> m, stats |-> rates[db][m]] :
                  db \in {d \in DbIds : \E m \in Methods : rates[d][m].kind # "absent"},
                  m \in Methods} \ {[db_id |-> db, method |-> m, stats |-> NoStats] :
                                      db \in DbIds, m \in Methods}]

\* line 364: the JSON object as nested dict
json_load(file) ==
  [db \in DbIds |->
     [m \in Methods |->
        IF \E e \in file.entries : e.db_id = db /\ e.method = m
          THEN (CHOOSE e \in file.entries : e.db_id = db /\ e.method = m).stats
          ELSE NoStats]]

\* every file taken for an empty one
_load_success_rates_empty(file) == EmptyRates

\* lines 360-368: no file, or an exception while reading it, gives {}
_load_success_rates(file) ==
  IF file.state = "json" THEN json_load(file) ELSE EmptyRates

\* lines 374-379: what a save leaves in the file.  When it fails the file
\* is as before (open failed) or cut short (a write failed).
SaveOutcomes(file, rates) ==
  { [ok |-> TRUE, file |-> json_dump(rates)],
    [ok |-> FALSE, file |-> file],
    [ok |-> FALSE, file |-> CorruptFile] }

\* the stats files that _save_success_rates can have written (lines 370-379)
SavedRates ==
  { EmptyRates,
    [EmptyRates EXCEPT !["pubmed"]["api"] = Stats(9, 10),
                       !["pubmed"]["browser"] = Stats(9, 10),
                       !["pubmed"]["selenium"] = Stats(3, 10)],
    [EmptyRates EXCEPT !["pubmed"]["api"] = Stats(3, 10),
                       !["pubmed"]["browser"] = Stats(9, 10),
                       !["pubmed"]["selenium"] = Stats(9, 10),
                       !["fda-drugs"]["api"] = Stats(0, 1),
                       !["tga-cmi"]["browser"] = Stats(0, 2),
                       !["tga-cmi"]["selenium"] = Stats(1, 2)] }

\* files json.load accepts (line 364) with a slot that is not a stats dict,
\* the shape line 321 tests for with isinstance
ForeignRates ==
  { [EmptyRates EXCEPT !["pubmed"]["api"] = BareNumber,
                       !["fda-drugs"]["api"] = BareNumber,
                       !["tga-cmi"]["selenium"] = Stats(1, 2)] }

\* -------------------------------------------------------- strategy outcomes
\* what one strategy callable can hand back: no records, or a list of records
ResultLists(db, m) ==
  { <<>>,
    IF m = "api" THEN <<Record(db, m, 1, Score(1)), Record(db, m, 2, Score(9))>>
    ELSE <<Record(db, m, 1, Missing), Record(db, m, 2, Score(9)),
           Record(db, m, 3, Score(1))>> }

Returned(m, rs) == [method |-> m, raised |-> FALSE, records |-> rs]

Raised(m) == [method |-> m, raised |-> TRUE, records |-> <<>>]

\* what a callable put into the registry by a caller can hand back as well: a
\* non-empty list with an element that is no dict
OtherLists(db, m) ==
  { <<Record(db, m, 1, Score(9)), Record(db, m, 2, NotADict)>> }

\* -------------------------------------------------------------------- state
VARIABLES
  success_rates,   \* self.success_rates
  bpc,             \* batch_search: "idle", "running", "returned", "raised"
  impl,            \* whose batch_search runs: "manager" or "api_integration"
  database_ids, parallel, max_workers,
  pc,              \* per submitted search_database call
  sorted_methods, midx, results,
  keys,            \* history: the sort keys line 321 has read
  ctx,             \* where _update_success_rate was called from
  tmp,             \* the value read by a += in _update_success_rate
  ret,             \* what the search_database call returned
  calls,           \* history: the strategy invocations of the call, in order
  recorded,        \* history: the completed _update_success_rate calls
  all_results, collected,
  sorted_results,  \* what batch_search returned
  rates0,          \* history: success_rates when batch_search was entered
  success_rates_file,  \* success_rates.json
  life,                \* history: how the stats were loaded and saved
  request_timestamps,  \* RateLimiter.request_timestamps, by domain
  domain,              \* the domain argument of the limiter call under way
  now,                 \* time.time(), in seconds
  requests_per_minute,
  lpc,                 \* the caller of the limiter: "idle", "permitted", "issued"
  lhist,               \* history: the requests issued and recorded, by domain
  max_retries,         \* RetryHandler.max_retries
  attempt,             \* execute_with_retry: the loop variable
  last_exception,
  rpc,                 \* execute_with_retry: "trying", "sleeping", "returned", "raised"
  rhist,               \* history: the outcome of every attempt, and of the call
  handler,             \* RetryHandler: initial_delay, max_delay, backoff_factor, jitter_factor
  retry_wait           \* execute_with_retry: wait_time, in units of 1/jitter_factor.den s

mgrVars == << success_rates, bpc, impl, database_ids, parallel, max_workers, pc,
              sorted_methods, midx, results, keys, ctx, tmp, ret, calls,
              recorded, all_results, collected, sorted_results, rates0 >>

limVars == << request_timestamps, domain, now, requests_per_minute, lpc, lhist >>

retryVars == << max_retries, attempt, last_exception, rpc, rhist, handler, retry_wait >>

utilVars == << limVars, retryVars >>

storeVars == << success_rates_file, life >>

vars == << mgrVars, storeVars, utilVars >>

Tasks == 1..MaxSources

Active == 1..Len(database_ids)

IdLists == UNION { [1..n -> DbIds] : n \in 0..MaxSources }

\* line 252
Pooled == parallel /\ Len(database_ids) > 1

\* a call given up by the batch whatever its state
Finished_any(t) == TRUE

Finished(t) == pc[t] \in {"done", "raised"}

Running(t) == pc[t] \notin {"none", "queued", "done", "raised"}

\* a pool that starts every call handed to it at once
CanStart_unbounded(t) ==
  /\ bpc = "running"
  /\ pc[t] = "queued"
  /\ \A u \in Active : u < t => pc[u] # "queued"
  /\ Pooled \/ \A u \in Active : u < t => u \in collected

\* the pool hands out queued calls first-in first-out to at most max_workers
\* threads (lines 256-267); the sequential loop runs one call after the
\* other (lines 279-285)
CanStart(t) ==
  /\ bpc = "running"
  /\ pc[t] = "queued"
  /\ \A u \in Active : u < t => pc[u] # "queued"
  /\ IF Pooled
       THEN Cardinality({u \in Active : Running(u)}) < max_workers
       ELSE \A u \in Active : u < t => u \in collected

\* another unfinished call works on the same db_id bucket
Contended(t) ==
  \E u \in Active : u # t /\ database_ids[u] = database_ids[t] /\ ~Finished(u)

Method(t) == sorted_methods[t][midx[t]]

Slot(t) == success_rates[database_ids[t]][Method(t)]

\* utils.py line 211: the window, in seconds
Minute == 60

\* the hosts that the callers of the limiter name
Domains == {"www.fda.gov", "www.ema.europa.eu"}

OneDomain == {"www.fda.gov"}

\* utils.py line 201: no domain is known
NoTimestamps == [known |-> FALSE, ts |-> <<>>]

NoRequests ==
  [issued |-> <<>>, n |-> 0, first |-> 0, burst |-> TRUE, disciplined |-> TRUE,
   scraped |-> 0, failed |-> 0, http |-> 0]

\* a limiter that nobody uses
LimiterUnused ==
  /\ request_timestamps = [d \in OneDomain |-> NoTimestamps]
  /\ domain = "none"
  /\ now = 0
  /\ requests_per_minute = 1
  /\ lpc = "unused"
  /\ lhist = [d \in OneDomain |-> NoRequests]

\* utils.py line 275
NoException == [kind |-> "None", attempt |-> 0]

NoAttempts == [attempts |-> <<>>, sleeps |-> <<>>, outcome |-> [kind |-> "None"]]

\* utils.py lines 241-243: jitter_factor: float = 0.25
QuarterJitter == [num |-> 1, den |-> 4]

\* utils.py lines 241-243: RetryHandler() with the defaults for the delays
DefaultHandler ==
  [initial_delay |-> 1, max_delay |-> 30, backoff_factor |-> 2,
   jitter_factor |-> QuarterJitter]

\* a retry handler that nobody uses
RetryUnused ==
  /\ max_retries = 0
  /\ attempt = 0
  /\ last_exception = NoException
  /\ rpc = "unused"
  /\ rhist = NoAttempts
  /\ handler = DefaultHandler
  /\ retry_wait = 0

UtilUnused == LimiterUnused /\ RetryUnused

TaskInit ==
  /\ sorted_methods = [t \in Tasks |-> <<>>]
  /\ midx = [t \in Tasks |-> 0]
  /\ results = [t \in Tasks |-> <<>>]
  /\ keys = [t \in Tasks |-> <<>>]
  /\ ctx = [t \in Tasks |-> "none"]
  /\ tmp = [t \in Tasks |-> 0]
  /\ ret = [t \in Tasks |-> <<>>]
  /\ calls = [t \in Tasks |-> <<>>]
  /\ recorded = [t \in Tasks |-> <<>>]
  /\ all_results = <<>>
  /\ collected = {}
  /\ sorted_results = <<>>

\* the files a manager can find at line 362
StatsFiles(rates) == {NoFile, CorruptFile} \cup {json_dump(r) : r \in rates}

NoSave == [saves |-> 0, save_ok |-> FALSE, closed |-> "no", saved_rates |-> EmptyRates]

\* the first manager of the behaviour, constructed when the file is f
Loaded(f) == [run |-> 1, loaded |-> f.state] @@ NoSave

StoreUnused ==
  /\ success_rates_file = NoFile
  /\ life = Loaded(NoFile)

InitWith(rates) ==
  /\ success_rates_file \in StatsFiles(rates)
  /\ life = Loaded(success_rates_file)
  /\ success_rates = _load_success_rates(success_rates_file)
  /\ rates0 = success_rates
  /\ bpc = "idle"
  /\ impl = "manager"
  /\ database_ids = <<>>
  /\ parallel = FALSE
  /\ max_workers = 1
  /\ pc = [t \in Tasks |-> "none"]
  /\ TaskInit
  /\ UtilUnused

\* no manager is at work
ManagerUnused ==
  /\ StoreUnused
  /\ success_rates = EmptyRates
  /\ rates0 = success_rates
  /\ bpc = "unused"
  /\ impl = "manager"
  /\ database_ids = <<>>
  /\ parallel = FALSE
  /\ max_workers = 1
  /\ pc = [t \in Tasks |-> "none"]
  /\ TaskInit

\* the manager after __init__ (line 168) with a stats file of its own making
Init == InitWith(SavedRates)

\* the manager of a first run: no stats file, or one without stats
InitFresh == InitWith({EmptyRates})

\* the manager after __init__ with any file that json.load accepts
InitLoaded == InitWith(SavedRates \cup ForeignRates)

\* ------------------------------------------------------------ batch_search
\* lines 250-267 / 278-279 and api_integration.py 152-168 / 179-180
BatchSearch(ids, par, w, im) ==
  /\ bpc = "idle"
  /\ bpc' = "running"
  /\ impl' = im
  /\ database_ids' = ids
  /\ parallel' = par
  /\ max_workers' = w
  /\ pc' = [t \in Tasks |-> IF t <= Len(ids) THEN "queued" ELSE "none"]
  /\ rates0' = success_rates
  /\ UNCHANGED << utilVars, storeVars, keys, success_rates, sorted_methods, midx, results, ctx, tmp, ret,
                  calls, recorded, all_results, collected, sorted_results >>

\* --------------------------------------------------------- search_database
\* every configured method taken to have a callable
Registered_any(db_id, method) == TRUE

\* the test for the source alone: any method of a source with a registry
Registered_source(db_id, method) == API_MODULES[db_id] # {}

\* line 200: the method has a callable in the registry
Registered(db_id, method) == method \in API_MODULES[db_id]

RECURSIVE NextRegistered(_, _, _)
\* lines 195-200, 221-222: the loop passes over the methods without a callable
NextRegistered(db_id, methods, i) ==
  IF i > Len(methods) THEN i
  ELSE IF Registered(db_id, methods[i]) THEN i
  ELSE NextRegistered(db_id, methods, i + 1)

\* the for loop from position i on: the next callable is called (lines
\* 201-209), or the list is used up and [] is returned (lines 228-230)
LoopFrom(t, methods, i) ==
  LET j == NextRegistered(database_ids[t], methods, i)
  IN  /\ midx' = [midx EXCEPT ![t] = j]
      /\ IF j > Len(methods)
           THEN /\ pc' = [pc EXCEPT ![t] = "done"]
                /\ ret' = [ret EXCEPT ![t] = <<>>]
           ELSE /\ pc' = [pc EXCEPT ![t] = "calling"]
                /\ ret' = ret

\* lines 185-209: the call starts, orders its methods and enters the loop;
\* one step when no other thread works on the db_id
Start(t) ==
  /\ impl = "manager"
  /\ CanStart(t)
  /\ ~Contended(t)
  /\ LET methods == get_access_methods(database_ids[t])
         sorted == _sort_methods_by_success_rate(success_rates, database_ids[t],
                                                 methods)
     IN  /\ keys' = [keys EXCEPT ![t] =
                       RateKeys(success_rates, database_ids[t], methods)]
         /\ sorted_methods' = [sorted_methods EXCEPT ![t] = sorted]
         /\ LoopFrom(t, sorted, 1)
  /\ UNCHANGED << utilVars, storeVars, success_rates, bpc, impl, database_ids, parallel,
                  max_workers, results, ctx, tmp, calls, recorded,
                  all_results, collected, sorted_results, rates0 >>

\* lines 185-191 when another thread works on the db_id: the key function of
\* line 321 is called once per method, and the stats can change in between
SortBegin(t) ==
  /\ impl = "manager"
  /\ CanStart(t)
  /\ Contended(t)
  /\ pc' = [pc EXCEPT ![t] = "sorting"]
  /\ UNCHANGED << utilVars, storeVars, keys, success_rates, bpc, impl, database_ids, parallel,
                  max_workers, sorted_methods, midx, results, ctx, tmp, ret,
                  calls, recorded, all_results, collected, sorted_results,
                  rates0 >>

\* line 321: the next key is read; after the last one the list is sorted and
\* the loop of lines 195-209 is entered
SortReadKey(t) ==
  /\ pc[t] = "sorting"
  /\ LET methods == get_access_methods(database_ids[t])
         ks == Append(keys[t],
                      RateKey(success_rates, database_ids[t],
                              methods[Len(keys[t]) + 1]))
     IN  /\ keys' = [keys EXCEPT ![t] = ks]
         /\ IF Len(ks) < Len(methods)
              THEN UNCHANGED << pc, sorted_methods, midx, ret >>
              ELSE /\ sorted_methods' =
                        [sorted_methods EXCEPT ![t] = SortedByKeys(methods, ks)]
                   /\ LoopFrom(t, SortedByKeys(methods, ks), 1)
  /\ UNCHANGED << utilVars, storeVars, success_rates, bpc, impl, database_ids, parallel,
                  max_workers, results, ctx, tmp, calls, recorded,
                  all_results, collected, sorted_results, rates0 >>

\* "if results is not None" for "if results": an empty list ends the search
BranchOn_any(rs) == "results"

\* line 212: which branch takes over when the callable has returned
BranchOn(rs) == IF rs # <<>> THEN "results" ELSE "empty"

\* lines 205-212, 218: the callable returns
StrategyReturns(t) ==
  /\ impl = "manager"
  /\ pc[t] = "calling"
  /\ \E rs \in ResultLists(database_ids[t], Method(t)) :
       /\ results' = [results EXCEPT ![t] = rs]
       /\ calls' = [calls EXCEPT ![t] = Append(@, Returned(Method(t), rs))]
       /\ ctx' = [ctx EXCEPT ![t] = BranchOn(rs)]
  /\ pc' = [pc EXCEPT ![t] = "update"]
  /\ UNCHANGED << utilVars, storeVars, keys, success_rates, bpc, impl, database_ids, parallel,
                  max_workers, sorted_methods, midx, tmp, ret, recorded,
                  all_results, collected, sorted_results, rates0 >>

\* lines 205-212: a callable of the caller's returns a list that cannot be
\* ranked
StrategyReturnsOther(t) ==
  /\ impl = "manager"
  /\ pc[t] = "calling"
  /\ \E rs \in OtherLists(database_ids[t], Method(t)) :
       /\ results' = [results EXCEPT ![t] = rs]
       /\ calls' = [calls EXCEPT ![t] = Append(@, Returned(Method(t), rs))]
       /\ ctx' = [ctx EXCEPT ![t] = BranchOn(rs)]
  /\ pc' = [pc EXCEPT ![t] = "update"]
  /\ UNCHANGED << utilVars, storeVars, keys, success_rates, bpc, impl, database_ids, parallel,
                  max_workers, sorted_methods, midx, tmp, ret, recorded,
                  all_results, collected, sorted_results, rates0 >>

\* lines 224-225: the callable raises
StrategyRaises(t) ==
  /\ impl = "manager"
  /\ pc[t] = "calling"
  /\ calls' = [calls EXCEPT ![t] = Append(@, Raised(Method(t)))]
  /\ ctx' = [ctx EXCEPT ![t] = "except"]
  /\ pc' = [pc EXCEPT ![t] = "update"]
  /\ UNCHANGED << utilVars, storeVars, keys, success_rates, bpc, impl, database_ids, parallel,
                  max_workers, sorted_methods, midx, results, tmp, ret,
                  recorded, all_results, collected, sorted_results, rates0 >>

\* an empty list recorded as a success
SuccessArg_unless_raised(c) == c # "except"

\* lines 213, 219, 225: the success argument of _update_success_rate
SuccessArg(c) == c = "results"

\* the return of line 217 left out: the loop goes on after a success
ReturnsAfter_never(c) == FALSE

\* lines 217, 220, 226: the call returns after the update, or loops on
ReturnsAfter(c) == c = "results"

\* what follows a completed _update_success_rate: lines 214-217 return the
\* ranked results, or _sort_results raises inside the try and the handler of
\* line 224 takes over; lines 220 and 226 fall through to the next method
Resume(t) ==
  /\ recorded' = [recorded EXCEPT ![t] =
       Append(@, [method |-> Method(t), success |-> SuccessArg(ctx[t])])]
  /\ IF ReturnsAfter(ctx[t])
       THEN IF SortRaises(results[t])
              THEN /\ ctx' = [ctx EXCEPT ![t] = "except"]
                   /\ pc' = [pc EXCEPT ![t] = "update"]
                   /\ UNCHANGED << ret, midx >>
              ELSE /\ ret' = [ret EXCEPT ![t] = _sort_results(results[t])]
                   /\ pc' = [pc EXCEPT ![t] = "done"]
                   /\ UNCHANGED << ctx, midx >>
       ELSE /\ LoopFrom(t, sorted_methods[t], midx[t] + 1)
            /\ ctx' = ctx

\* lines 333-351 as one step, when no other thread works on the db_id
UpdateSuccessRate(t) ==
  /\ pc[t] = "update"
  /\ ~UpdateRaises(success_rates, database_ids[t], Method(t))
  /\ ~Contended(t)
  /\ success_rates' = _update_success_rate(success_rates, database_ids[t],
                                           Method(t), SuccessArg(ctx[t]))
  /\ Resume(t)
  /\ UNCHANGED << utilVars, storeVars, keys, bpc, impl, database_ids, parallel, max_workers,
                  sorted_methods, results, tmp, calls, all_results,
                  collected, sorted_results, rates0 >>

\* lines 347-348 raise: inside the try the handler of line 224 takes over,
\* inside the handler (line 225) the exception leaves search_database
UpdateFails(t) ==
  /\ pc[t] = "update"
  /\ UpdateRaises(success_rates, database_ids[t], Method(t))
  /\ IF ctx[t] = "except"
       THEN /\ pc' = [pc EXCEPT ![t] = "raised"]
            /\ ctx' = ctx
       ELSE /\ pc' = pc
            /\ ctx' = [ctx EXCEPT ![t] = "except"]
  /\ UNCHANGED << utilVars, storeVars, keys, success_rates, bpc, impl, database_ids, parallel,
                  max_workers, sorted_methods, midx, results, tmp, ret, calls,
                  recorded, all_results, collected, sorted_results, rates0 >>

\* line 346: the first += of the update
FirstCount(c) == IF SuccessArg(c) THEN "upd_rs" ELSE "upd_rt"

\* lines 345-351 at work on a stats dict
UpdSteps == {"upd_rs", "upd_ws", "upd_rt", "upd_wt", "upd_rate"}

\* _update_success_rate statement by statement, when another thread works on
\* the same db_id: no lock is held, each += reads and then writes, and the
\* test of line 333 is apart from the store of line 334
\* lines 333-345
UpdateEnter(t) ==
  /\ pc[t] = "update"
  /\ ~UpdateRaises(success_rates, database_ids[t], Method(t))
  /\ Contended(t)
  /\ IF NoDict(success_rates, database_ids[t])
       THEN /\ success_rates' = success_rates
            /\ pc' = [pc EXCEPT ![t] = "upd_new"]
       ELSE /\ success_rates' =
                 IF Slot(t).kind = "absent"
                   THEN [success_rates EXCEPT
                           ![database_ids[t]][Method(t)] = NewStats]
                   ELSE success_rates
            /\ pc' = [pc EXCEPT ![t] = FirstCount(ctx[t])]
  /\ UNCHANGED << utilVars, storeVars, keys, bpc, impl, database_ids, parallel, max_workers,
                  sorted_methods, midx, results, ctx, tmp, ret, calls,
                  recorded, all_results, collected, sorted_results, rates0 >>

\* lines 334-345 after line 333 has found no dict of db_id: the dict is made
\* anew, whatever another thread has put there since; a thread at work on a
\* stats dict of the old one goes on writing to it, out of the tracker
UpdNewDict(t) ==
  /\ pc[t] = "upd_new"
  /\ success_rates' =
       [success_rates EXCEPT ![database_ids[t]] = NewDict(Method(t))]
  /\ pc' = [u \in DOMAIN pc |->
              IF u = t THEN FirstCount(ctx[t])
              ELSE IF /\ u \in Active
                      /\ database_ids[u] = database_ids[t]
                      /\ pc[u] \in UpdSteps
                     THEN "upd_lost"
                     ELSE pc[u]]
  /\ UNCHANGED << utilVars, storeVars, keys, bpc, impl, database_ids, parallel, max_workers,
                  sorted_methods, midx, results, ctx, tmp, ret, calls,
                  recorded, all_results, collected, sorted_results, rates0 >>

\* lines 345-351 on a stats dict that is no longer in the tracker
UpdDetached(t) ==
  /\ pc[t] = "upd_lost"
  /\ tmp' = [tmp EXCEPT ![t] = 0]
  /\ Resume(t)
  /\ UNCHANGED << utilVars, storeVars, keys, success_rates, bpc, impl, database_ids, parallel,
                  max_workers, sorted_methods, results, calls, all_results,
                  collected, sorted_results, rates0 >>

\* line 347, the read of stats["success"]
UpdReadSuccess(t) ==
  /\ pc[t] = "upd_rs"
  /\ tmp' = [tmp EXCEPT ![t] = Slot(t).success]
  /\ pc' = [pc EXCEPT ![t] = "upd_ws"]
  /\ UNCHANGED << utilVars, storeVars, keys, success_rates, bpc, impl, database_ids, parallel,
                  max_workers, sorted_methods, midx, results, ctx, ret, calls,
                  recorded, all_results, collected, sorted_results, rates0 >>

\* line 347, the store
UpdWriteSuccess(t) ==
  /\ pc[t] = "upd_ws"
  /\ success_rates' =
       [success_rates EXCEPT ![database_ids[t]][Method(t)].success = tmp[t] + 1]
  /\ tmp' = [tmp EXCEPT ![t] = 0]
  /\ pc' = [pc EXCEPT ![t] = "upd_rt"]
  /\ UNCHANGED << utilVars, storeVars, keys, bpc, impl, database_ids, parallel, max_workers,
                  sorted_methods, midx, results, ctx, ret, calls,
                  recorded, all_results, collected, sorted_results, rates0 >>

\* line 348, the read of stats["total"]
UpdReadTotal(t) ==
  /\ pc[t] = "upd_rt"
  /\ tmp' = [tmp EXCEPT ![t] = Slot(t).total]
  /\ pc' = [pc EXCEPT ![t] = "upd_wt"]
  /\ UNCHANGED << utilVars, storeVars, keys, success_rates, bpc, impl, database_ids, parallel,
                  max_workers, sorted_methods, midx, results, ctx, ret, calls,
                  recorded, all_results, collected, sorted_results, rates0 >>

\* line 348, the store
UpdWriteTotal(t) ==
  /\ pc[t] = "upd_wt"
  /\ success_rates' =
       [success_rates EXCEPT ![database_ids[t]][Method(t)].total = tmp[t] + 1]
  /\ tmp' = [tmp EXCEPT ![t] = 0]
  /\ pc' = [pc EXCEPT ![t] = "upd_rate"]
  /\ UNCHANGED << utilVars, storeVars, keys, bpc, impl, database_ids, parallel, max_workers,
                  sorted_methods, midx, results, ctx, ret, calls,
                  recorded, all_results, collected, sorted_results, rates0 >>

\* line 351
UpdWriteRate(t) ==
  /\ pc[t] = "upd_rate"
  /\ success_rates' =
       [success_rates EXCEPT ![database_ids[t]][Method(t)].rate =
          Quotient(Slot(t).success, Slot(t).total)]
  /\ Resume(t)
  /\ UNCHANGED << utilVars, storeVars, keys, bpc, impl, database_ids, parallel, max_workers,
                  sorted_methods, results, tmp, calls, all_results,
                  collected, sorted_results, rates0 >>

\* ------------------------------------- api_integration.search_database
\* api_integration.py 97-132: one module function, no try around it
StartApi(t) ==
  /\ impl = "api_integration"
  /\ CanStart(t)
  /\ IF database_ids[t] \in api_modules
       THEN /\ pc' = [pc EXCEPT ![t] = "calling"]
            /\ ret' = ret
       ELSE /\ pc' = [pc EXCEPT ![t] = "done"]
            /\ ret' = [ret EXCEPT ![t] = <<>>]
  /\ UNCHANGED << utilVars, storeVars, keys, success_rates, bpc, impl, database_ids, parallel,
                  max_workers, sorted_methods, midx, results, ctx, tmp, calls,
                  recorded, all_results, collected, sorted_results, rates0 >>

ModuleReturns(t) ==
  /\ impl = "api_integration"
  /\ pc[t] = "calling"
  /\ \E rs \in ResultLists(database_ids[t], "module") :
       /\ calls' = [calls EXCEPT ![t] = Append(@, Returned("module", rs))]
       /\ ret' = [ret EXCEPT ![t] = rs]
  /\ pc' = [pc EXCEPT ![t] = "done"]
  /\ UNCHANGED << utilVars, storeVars, keys, success_rates, bpc, impl, database_ids, parallel,
                  max_workers, sorted_methods, midx, results, ctx, tmp,
                  recorded, all_results, collected, sorted_results, rates0 >>

ModuleRaises(t) ==
  /\ impl = "api_integration"
  /\ pc[t] = "calling"
  /\ calls' = [calls EXCEPT ![t] = Append(@, Raised("module"))]
  /\ pc' = [pc EXCEPT ![t] = "raised"]
  /\ UNCHANGED << utilVars, storeVars, keys, success_rates, bpc, impl, database_ids, parallel,
                  max_workers, sorted_methods, midx, results, ctx, tmp, ret,
                  recorded, all_results, collected, sorted_results, rates0 >>

\* --------------------------------------------------- batch_search, the rest
\* lines 275-276 / 284-285 and api_integration.py 176-177 / 192-193: the
\* except clause around one source logs the error and the batch goes on
OnSourceError(im) == "log"

\* records that the batch already holds are dropped
Extended_deduplicated(all, rs) ==
  LET IsNew(r) == \A i \in DOMAIN all : all[i] # r IN all \o SelectSeq(rs, IsNew)

\* lines 272-273 / 281-282
Extended(all, rs) == all \o rs

\* lines 269-276 / 281-285: the result of a finished call is appended, the
\* exception of a failed one is handled.  as_completed hands out the futures
\* that are done in any order.
Collect(t) ==
  /\ bpc = "running"
  /\ t \in Active \ collected
  /\ Finished(t)
  /\ all_results' = IF pc[t] = "done" THEN Extended(all_results, ret[t])
                    ELSE all_results
  /\ collected' = collected \cup {t}
  /\ bpc' = IF pc[t] = "raised" /\ OnSourceError(impl) # "log" THEN "raised"
            ELSE bpc
  /\ UNCHANGED << utilVars, storeVars, keys, success_rates, impl, database_ids, parallel,
                  max_workers, pc, sorted_methods, midx, results, ctx, tmp,
                  ret, calls, recorded, sorted_results, rates0 >>

\* lines 287-292; api_integration.py 195-196 returns all_results as it is
Ranked(im, rs) == IF im = "manager" THEN _sort_results(rs) ELSE rs

BatchReturn ==
  /\ bpc = "running"
  /\ collected = Active
  /\ sorted_results' = Ranked(impl, all_results)
  /\ bpc' = "returned"
  /\ UNCHANGED << utilVars, storeVars, keys, success_rates, impl, database_ids, parallel, max_workers,
                  pc, sorted_methods, midx, results, ctx, tmp, ret, calls,
                  recorded, all_results, collected, rates0 >>

\* a failed save raised to the caller of close()
OnSaveError_raise == "raise"

\* lines 378-379: a failed save is written to the log
OnSaveError == "log"

\* lines 456-461 and 294-303: the module-level batch_search closes its manager
\* in the finally clause, after manager.batch_search has returned; close()
\* shuts the browsers (which catches its own errors) and saves the stats
Close(o) ==
  /\ bpc = "returned"
  /\ impl = "manager"
  /\ life.closed = "no"
  /\ o \in SaveOutcomes(success_rates_file, success_rates)
  /\ success_rates_file' = o.file
  /\ life' = [life EXCEPT !.saves = @ + 1,
                          !.save_ok = o.ok,
                          !.saved_rates = success_rates,
                          !.closed = IF o.ok \/ OnSaveError = "log"
                                       THEN "returned" ELSE "raised"]
  /\ UNCHANGED << mgrVars, utilVars >>

\* lines 139-168 in a later run: a new manager, whose stats are what it
\* finds in the file
Construct ==
  /\ bpc = "returned"
  /\ impl = "manager"
  /\ life.closed # "no"
  /\ success_rates' = _load_success_rates(success_rates_file)
  /\ rates0' = success_rates'
  /\ life' = [life EXCEPT !.run = @ + 1, !.loaded = success_rates_file.state]
  /\ bpc' = "constructed"
  /\ database_ids' = <<>>
  /\ parallel' = FALSE
  /\ max_workers' = 1
  /\ pc' = [t \in Tasks |-> "none"]
  /\ sorted_methods' = [t \in Tasks |-> <<>>]
  /\ midx' = [t \in Tasks |-> 0]
  /\ results' = [t \in Tasks |-> <<>>]
  /\ keys' = [t \in Tasks |-> <<>>]
  /\ ctx' = [t \in Tasks |-> "none"]
  /\ tmp' = [t \in Tasks |-> 0]
  /\ ret' = [t \in Tasks |-> <<>>]
  /\ calls' = [t \in Tasks |-> <<>>]
  /\ recorded' = [t \in Tasks |-> <<>>]
  /\ all_results' = <<>>
  /\ collected' = {}
  /\ sorted_results' = <<>>
  /\ UNCHANGED << utilVars, success_rates_file, impl >>

\* max_workers is read by the pool only (line 256): a sequential batch is
\* entered with one value of it
Arguments ==
  { a \in [ids : IdLists, par : BOOLEAN, w : 1..MaxWorkers] :
      (a.par /\ Len(a.ids) > 1) \/ a.w = 1 }

\* the steps of a batch that is under way: what its threads do between the
\* call of batch_search and its return
Threads ==
  \/ \E t \in Tasks : Start(t)
  \/ \E t \in Tasks : SortBegin(t)
  \/ \E t \in Tasks : SortReadKey(t)
  \/ \E t \in Tasks : StrategyReturns(t)
  \/ \E t \in Tasks : StrategyRaises(t)
  \/ \E t \in Tasks : UpdateSuccessRate(t)
  \/ \E t \in Tasks : UpdateEnter(t)
  \/ \E t \in Tasks : UpdNewDict(t)
  \/ \E t \in Tasks : UpdDetached(t)
  \/ \E t \in Tasks : UpdReadSuccess(t)
  \/ \E t \in Tasks : UpdWriteSuccess(t)
  \/ \E t \in Tasks : UpdReadTotal(t)
  \/ \E t \in Tasks : UpdWriteTotal(t)
  \/ \E t \in Tasks : UpdWriteRate(t)
  \/ \E t \in Tasks : StartApi(t)
  \/ \E t \in Tasks : ModuleReturns(t)
  \/ \E t \in Tasks : ModuleRaises(t)
  \/ \E t \in Tasks : Collect(t)

Orchestration == Threads \/ BatchReturn

\* the step in which batch_search returns (lines 287-292), whatever it returns
NextSaved ==
  \/ \E a \in Arguments, im \in {"manager", "api_integration"} :
       BatchSearch(a.ids, a.par, a.w, im)
  \/ Orchestration
  \/ \E o \in SaveOutcomes(success_rates_file, success_rates) : Close(o)
  \/ Construct

Next == NextSaved \/ \E t \in Tasks : UpdateFails(t)

\* every stats file that loads
Spec == InitLoaded /\ [][Next]_vars

\* the stats files of the program's own making
SpecSaved == Init /\ [][NextSaved]_vars

\* the registry extended by a caller: a callable may hand back any list
NextAnyCallable == NextSaved \/ \E t \in Tasks : StrategyReturnsOther(t)

SpecAnyCallable == InitFresh /\ [][NextAnyCallable]_vars

\* the batch with threads that are scheduled and strategies that come to an
\* end: a step of the batch that stays possible is taken
SpecLive ==
  InitFresh /\ [][NextSaved]_vars /\ WF_vars(Threads) /\ WF_vars(BatchReturn)

\* ------------------------------------------------------ _sort_results alone
\* the scores a record can carry into the ranker
RankScores == {Score(1), Score(5), Score(9), Missing, NonNumeric}

\* the lists handed to _sort_results (line 381): record n is the n-th of the
\* input
RankInputs ==
  { [i \in DOMAIN f |-> Record("pubmed", "api", i, f[i])] :
      f \in UNION { [1..n -> RankScores] : n \in 0..MaxLen } }

InitRank ==
  /\ StoreUnused
  /\ success_rates = EmptyRates
  /\ rates0 = success_rates
  /\ bpc = "ranker"
  /\ impl = "manager"
  /\ database_ids = <<>>
  /\ parallel = FALSE
  /\ max_workers = 1
  /\ pc = [t \in Tasks |-> "none"]
  /\ sorted_methods = [t \in Tasks |-> <<>>]
  /\ midx = [t \in Tasks |-> 0]
  /\ \E rs \in RankInputs : results = [t \in Tasks |-> IF t = 1 THEN rs ELSE <<>>]
  /\ keys = [t \in Tasks |-> <<>>]
  /\ ctx = [t \in Tasks |-> "none"]
  /\ tmp = [t \in Tasks |-> 0]
  /\ ret = [t \in Tasks |-> <<>>]
  /\ calls = [t \in Tasks |-> <<>>]
  /\ recorded = [t \in Tasks |-> <<>>]
  /\ all_results = <<>>
  /\ collected = {}
  /\ sorted_results = <<>>
  /\ UtilUnused

\* lines 391-396
SortResults ==
  /\ bpc = "ranker"
  /\ ret' = [ret EXCEPT ![1] = _sort_results(results[1])]
  /\ bpc' = "ranked"
  /\ UNCHANGED << utilVars, storeVars, success_rates, impl, database_ids, parallel, max_workers, pc,
                  sorted_methods, midx, results, keys, ctx, tmp, calls,
                  recorded, all_results, collected, sorted_results, rates0 >>

NextRank == SortResults

SpecRank == InitRank /\ [][NextRank]_vars

\* ============================================================ RateLimiter
\* nothing dropped from the list
LastMinute_all(ts, current_time) == ts

\* utils.py lines 214-216
LastMinute(ts, current_time) ==
  LET recent(t) == t > current_time - Minute IN SelectSeq(ts, recent)

\* the limit taken as reached only above requests_per_minute
LimitReached_over(n, rpm) == n > rpm

\* utils.py line 219
LimitReached(n, rpm) == n >= rpm

\* utils.py line 221
wait_time(ts, current_time) == Minute - (current_time - ts[1])

\* time.sleep returns after the given time, or later
SleepEnds(t, secs) == {t + secs, t + secs + ClockStep}

\* the domains that the callers of this limiter name
Named == DOMAIN request_timestamps

RECURSIVE RecordedIn(_)
\* the requests recorded so far, over the domains of D
RecordedIn(D) ==
  IF D = {} THEN 0
  ELSE LET d == CHOOSE x \in D : TRUE IN lhist[d].n + RecordedIn(D \ {d})

\* the requests followed: MaxRequests of them, shared out over the domains
Budget(D) == MaxRequests \div Cardinality(D)

\* one list for all domains: the entry of a domain seen before, if any
TimestampsOf_any(rt, d) ==
  IF \E e \in DOMAIN rt : rt[e].known
    THEN rt[CHOOSE e \in DOMAIN rt : rt[e].known]
    ELSE rt[d]

\* utils.py lines 205, 214-215: the entry of the dict under the key domain
TimestampsOf(rt, d) == rt[d]

\* utils.py lines 203-227, the sleep of line 224 included
wait_if_needed(d) ==
  /\ lpc = "idle"
  /\ RecordedIn(Named) < Budget(Named)
  /\ domain' = d
  /\ IF ~TimestampsOf(request_timestamps, d).known
       THEN /\ request_timestamps' =
                 [request_timestamps EXCEPT ![d] = [known |-> TRUE, ts |-> <<>>]]
            /\ now' = now
       ELSE LET recent == LastMinute(TimestampsOf(request_timestamps, d).ts, now)
            IN  IF /\ LimitReached(Len(recent), requests_per_minute)
                   /\ wait_time(recent, now) > 0
                  THEN /\ now' \in SleepEnds(now, wait_time(recent, now))
                       /\ request_timestamps' =
                            [request_timestamps EXCEPT ![d] = [known |-> TRUE, ts |-> <<>>]]
                  ELSE /\ now' = now
                       /\ request_timestamps' =
                            [request_timestamps EXCEPT ![d] = [known |-> TRUE, ts |-> recent]]
  /\ lpc' = "permitted"
  /\ UNCHANGED << mgrVars, storeVars, retryVars, requests_per_minute, lhist >>

\* utils.py lines 343-378: the request that wait_if_needed has let through
IssueRequest ==
  /\ lpc = "permitted"
  /\ lpc' = "issued"
  /\ lhist' = [lhist EXCEPT ![domain].issued = Append(@, now)]
  /\ UNCHANGED << mgrVars, storeVars, retryVars, request_timestamps, domain, now,
                  requests_per_minute >>

\* utils.py lines 231-234: the list of d with the current time appended
Recorded(rt, d, current_time) ==
  [rt EXCEPT ![d] = [known |-> TRUE, ts |-> Append(rt[d].ts, current_time)]]

\* the history with one more request recorded for d, after a wait or not
Counted(h, d, current_time, waited) ==
  [h EXCEPT
     ![d].n = @ + 1,
     ![d].first = IF h[d].n = 0 THEN current_time ELSE @,
     ![d].burst = @ /\ (h[d].n = 0 \/ current_time = h[d].first),
     ![d].disciplined = @ /\ waited]

\* utils.py lines 229-234; a caller may also record without having waited
record_request(d) ==
  /\ lpc \in {"idle", "issued"}
  /\ lpc = "issued" => d = domain
  /\ RecordedIn(Named) < Budget(Named)
  /\ domain' = d
  /\ request_timestamps' = Recorded(request_timestamps, d, now)
  /\ lpc' = "idle"
  /\ lhist' = Counted(lhist, d, now, lpc = "issued")
  /\ UNCHANGED << mgrVars, storeVars, retryVars, now, requests_per_minute >>

\* time passes
Tick ==
  /\ lpc # "unused"
  /\ now + ClockStep <= MaxTime
  /\ now' = now + ClockStep
  /\ UNCHANGED << mgrVars, storeVars, retryVars, request_timestamps, domain,
                  requests_per_minute, lpc, lhist >>

\* the limits the callers pass: 5 as in the scenario of the specification,
\* and a smaller one
RpmValues == {2, 5}

\* utils.py lines 199-201
InitLimiterFor(D) ==
  /\ ManagerUnused
  /\ RetryUnused
  /\ request_timestamps = [d \in D |-> NoTimestamps]
  /\ domain = "none"
  /\ now = 0
  /\ requests_per_minute \in RpmValues
  /\ lpc = "idle"
  /\ lhist = [d \in D |-> NoRequests]

\* a limiter that serves one domain
InitLimiter == InitLimiterFor(OneDomain)

\* a limiter that serves two
InitDomains == InitLimiterFor(Domains)

NextLimiter ==
  \/ \E d \in Named : wait_if_needed(d)
  \/ IssueRequest
  \/ \E d \in Named : record_request(d)
  \/ Tick

SpecLimiter == InitLimiter /\ [][NextLimiter]_vars

SpecDomains == InitDomains /\ [][NextLimiter]_vars

\* =========================================================== RetryHandler
\* what the wrapped operation can raise: subclasses of Exception of several
\* kinds (utils.py lines 370-374 raise HTTP errors and a plain Exception)
ErrorKinds == {"HTTPError", "Timeout", "Exception"}

\* one attempt short of max_retries + 1
LastAttempt_early(a, mr) == a + 1 >= mr

\* no attempt taken for the last one
LastAttempt_never(a, mr) == FALSE

\* utils.py line 284
LastAttempt(a, mr) == a = mr

\* utils.py line 294: the error raised at exhaustion, its message naming the
\* number of attempts and the last error
AllAttemptsFailed(mr, last) ==
  [kind |-> "Exception", attempts |-> mr + 1, last |-> last]

\* utils.py line 262 (scraper.py line 44): the exponential backoff, in seconds
Backoff(h, k) == h.initial_delay * h.backoff_factor ^ k

\* the delay without its cap
Capped_not(delay, max_delay) == delay

\* utils.py line 265 (scraper.py line 47): min(delay, self.max_delay)
Capped(delay, max_delay) == IF delay <= max_delay THEN delay ELSE max_delay

\* utils.py lines 262-265: the delay before the jitter is added, in seconds
DelayBeforeJitter(h, k) == Capped(Backoff(h, k), h.max_delay)

\* what random.random() returns, in quarters: 0, 0.25, 0.5, 0.75
RandomDraws == 0..3

\* utils.py lines 268-269 (scraper.py lines 50-51): the delay plus
\* random * jitter_amount * 2 - jitter_amount, in units of 1/(2 * den) seconds
\* where jitter_factor = num/den; with x quarters drawn that is
\* delay * (1 + (num/den) * (x - 2) / 2)
Jittered(delay, jf, x) == delay * (2 * jf.den + jf.num * (x - 2))

\* utils.py lines 259-271: the values that _calculate_delay(attempt) can return
_calculate_delay(h, k) ==
  { Jittered(DelayBeforeJitter(h, k), h.jitter_factor, x) : x \in RandomDraws }

\* the handlers constructed: the defaults, the delays of the specification's
\* example, and others around them
Handlers ==
  { [initial_delay |-> i, max_delay |-> m, backoff_factor |-> b,
     jitter_factor |-> QuarterJitter] : i \in {1, 2}, m \in {10, 30}, b \in {1, 2} }

\* utils.py lines 273-277: execute_with_retry is entered
InitRetry ==
  /\ ManagerUnused
  /\ LimiterUnused
  /\ max_retries \in 0..MaxRetries
  /\ handler \in Handlers
  /\ retry_wait = 0
  /\ attempt = 0
  /\ last_exception = NoException
  /\ rpc = "trying"
  /\ rhist = NoAttempts

\* utils.py line 279: func returns, and so does execute_with_retry
FuncReturns ==
  /\ rpc = "trying"
  /\ rpc' = "returned"
  /\ rhist' = [rhist EXCEPT
                 !.attempts = Append(@, [kind |-> "ok", attempt |-> attempt]),
                 !.outcome = [kind |-> "value", attempt |-> attempt]]
  /\ UNCHANGED << mgrVars, storeVars, limVars, max_retries, attempt, last_exception,
                  handler, retry_wait >>

\* utils.py lines 280-294: func raises; the last attempt ends the loop and
\* line 294 raises, any other attempt computes its delay (line 287) and goes
\* to the sleep of line 291
FuncRaises(kind) ==
  /\ rpc = "trying"
  /\ last_exception' = [kind |-> kind, attempt |-> attempt]
  /\ IF LastAttempt(attempt, max_retries)
       THEN /\ rpc' = "raised"
            /\ rhist' = [rhist EXCEPT
                           !.attempts = Append(@, last_exception'),
                           !.outcome = AllAttemptsFailed(max_retries, last_exception')]
            /\ retry_wait' = retry_wait
       ELSE /\ rpc' = "sleeping"
            /\ retry_wait' \in _calculate_delay(handler, attempt)
            /\ rhist' = [rhist EXCEPT
                           !.attempts = Append(@, last_exception'),
                           !.sleeps = Append(@, [attempt |-> attempt,
                                                 delay |-> DelayBeforeJitter(handler, attempt)])]
  /\ UNCHANGED << mgrVars, storeVars, limVars, max_retries, attempt, handler >>

\* utils.py lines 291, 277: the sleep ends and the loop takes the next attempt
NextAttempt ==
  /\ rpc = "sleeping"
  /\ attempt' = attempt + 1
  /\ rpc' = "trying"
  /\ UNCHANGED << mgrVars, storeVars, limVars, max_retries, last_exception, rhist,
                  handler, retry_wait >>

NextRetry ==
  \/ FuncReturns
  \/ \E kind \in ErrorKinds : FuncRaises(kind)
  \/ NextAttempt

SpecRetry == InitRetry /\ [][NextRetry]_vars

\* ------------------------------------------------------- AdvancedScraper
RECURSIVE Scrapes(_)
\* the scrape_with_requests calls that have come to an end, over the domains
\* of D
Scrapes(D) ==
  IF D = {} THEN 0
  ELSE LET d == CHOOSE x \in D : TRUE
       IN  lhist[d].scraped + lhist[d].failed + Scrapes(D \ {d})

\* utils.py lines 336-340 with respect_rate_limit=False: no wait
Unlimited(d) ==
  /\ lpc = "idle"
  /\ domain' = d
  /\ lpc' = "unlimited"
  /\ UNCHANGED << mgrVars, storeVars, retryVars, request_timestamps, now,
                  requests_per_minute, lhist >>

\* utils.py lines 336-340: scrape_with_requests is called for a url of
\* domain d and the limiter is asked first, unless the caller switches it off
scrape_with_requests(d, respect_rate_limit) ==
  /\ rpc = "ready"
  /\ Scrapes(Named) < MaxScrapes
  /\ IF respect_rate_limit THEN wait_if_needed(d) ELSE Unlimited(d)

\* utils.py lines 343-378 and 275-277: headers, cookies and proxy are set up
\* and execute_with_retry(make_request) is entered
ExecuteWithRetry ==
  /\ lpc \in {"permitted", "unlimited"}
  /\ rpc = "ready"
  /\ rpc' = "trying"
  /\ attempt' = 0
  /\ last_exception' = NoException
  /\ rhist' = NoAttempts
  /\ retry_wait' = 0
  /\ UNCHANGED << mgrVars, storeVars, limVars, max_retries, handler >>

\* record_request called whenever execute_with_retry has ended
RecordsRequest_always(l, r) == l = "permitted"

\* utils.py lines 378-382: record_request is called when rate limiting is on
\* and execute_with_retry has returned
RecordsRequest(l, r) == l = "permitted" /\ r = "returned"

\* the history of d with a limited scrape call that has ended after the
\* attempts made
Scraped(h, d, l, r, made) ==
  IF l # "permitted" THEN h
  ELSE [h EXCEPT ![d].http = @ + made,
                 ![d].scraped = @ + IF r = "returned" THEN 1 ELSE 0,
                 ![d].failed = @ + IF r = "returned" THEN 0 ELSE 1]

\* utils.py lines 378-393: execute_with_retry has returned the page, or has
\* raised after its last attempt; the page or None is returned and the
\* locals of the call are gone
ScrapeReturns ==
  /\ lpc \in {"permitted", "unlimited"}
  /\ rpc \in {"returned", "raised"}
  /\ IF RecordsRequest(lpc, rpc)
       THEN /\ request_timestamps' = Recorded(request_timestamps, domain, now)
            /\ lhist' = Scraped(Counted(lhist, domain, now, TRUE), domain, lpc,
                                rpc, Len(rhist.attempts))
       ELSE /\ request_timestamps' = request_timestamps
            /\ lhist' = Scraped(lhist, domain, lpc, rpc, Len(rhist.attempts))
  /\ lpc' = "idle"
  /\ rpc' = "ready"
  /\ attempt' = 0
  /\ last_exception' = NoException
  /\ rhist' = NoAttempts
  /\ retry_wait' = 0
  /\ UNCHANGED << mgrVars, storeVars, domain, now, requests_per_minute,
                  max_retries, handler >>

\* utils.py lines 359-374: what make_request raises: the errors of
\* requests.get and raise_for_status, and Exception("CAPTCHA detected")
RequestErrors == {"HTTPError", "Exception"}

\* utils.py lines 301-314: a scraper with a limiter and a retry handler of
\* its own, called with a limit that the scrapes followed can reach
InitScrape ==
  /\ ManagerUnused
  /\ request_timestamps = [d \in Domains |-> NoTimestamps]
  /\ domain = "none"
  /\ now = 0
  /\ requests_per_minute = 2
  /\ lpc = "idle"
  /\ lhist = [d \in Domains |-> NoRequests]
  /\ max_retries \in {0, 2}
  /\ handler = DefaultHandler
  /\ retry_wait = 0
  /\ attempt = 0
  /\ last_exception = NoException
  /\ rpc = "ready"
  /\ rhist = NoAttempts

NextScrape ==
  \/ \E d \in Named, respect_rate_limit \in BOOLEAN :
       scrape_with_requests(d, respect_rate_limit)
  \/ ExecuteWithRetry
  \/ FuncReturns
  \/ \E kind \in RequestErrors : FuncRaises(kind)
  \/ NextAttempt
  \/ ScrapeReturns
  \/ Tick

SpecScrape == InitScrape /\ [][NextScrape]_vars

\* ================================================================ claims
Range(s) == {s[i] : i \in DOMAIN s}

Count(s, x) == Cardinality({i \in DOMAIN s : s[i] = x})

SameRecords(a, b) ==
  /\ Len(a) = Len(b)
  /\ \A x \in Range(a) \cup Range(b) : Count(a, x) = Count(b, x)

WithScores(rs) ==
  [i \in DOMAIN rs |->
     IF rs[i].relevanceScore.kind = "number" THEN rs[i]
     ELSE [rs[i] EXCEPT !.relevanceScore = [kind |-> "number", v |-> DefaultScore]]]

Descending(rs) ==
  \A i, j \in DOMAIN rs :
    i < j => rs[i].relevanceScore.v >= rs[j].relevanceScore.v

RankedOf(out, in) == SameRecords(out, WithScores(in)) /\ Descending(out)

NonEmptyCall(c) == ~c.raised /\ c.records # <<>>

NoHit(t) == \A i \in 1..Len(calls[t]) : ~NonEmptyCall(calls[t][i])

\* the methods of the call that have a callable, in the order of the call
InOrder(t) ==
  LET HasCallable(m) == m \in API_MODULES[database_ids[t]]
  IN  SelectSeq(sorted_methods[t], HasCallable)

C3_ExhaustedReturnsEmpty ==
  impl = "manager" =>
    \A t \in Active :
      (pc[t] \in {"done", "raised"} /\ NoHit(t)) => (pc[t] = "done" /\ ret[t] = <<>>)

\* the rate a (db_id, method) pair is ordered by: the tracked rate, 0.5 for a
\* pair without recorded stats
TrackedRate(rates, db, m) ==
  IF rates[db][m].kind = "stats" THEN rates[db][m].rate ELSE [num |-> 1, den |-> 2]

PositionIn(seq, x) == CHOOSE i \in DOMAIN seq : seq[i] = x

OrderedByKeys(sm, ks, db) ==
  LET reg == ACCESS_METHODS[db]
  IN  /\ Len(sm) = Len(reg)
      /\ Range(sm) = Range(reg)
      /\ \A i, j \in DOMAIN sm :
           i < j =>
             LET a == ks[PositionIn(reg, sm[i])]
                 b == ks[PositionIn(reg, sm[j])]
             IN  \/ a.num * b.den > b.num * a.den
                 \/ /\ a.num * b.den = b.num * a.den
                    /\ PositionIn(reg, sm[i]) < PositionIn(reg, sm[j])

\* every key that the sort of a call takes is the tracked rate of its method
\* at that moment
C4_KeyStep ==
  \A t \in Tasks :
    impl = "manager" =>
      \A i \in (Len(keys[t]) + 1)..Len(keys'[t]) :
        keys'[t][i] = TrackedRate(success_rates, database_ids'[t],
                                  ACCESS_METHODS[database_ids'[t]][i])

C4_CallOrder ==
  impl = "manager" =>
    \A t \in Active :
      /\ pc[t] \notin {"queued", "sorting"} =>
           OrderedByKeys(sorted_methods[t], keys[t], database_ids[t])
      /\ \A i, j \in 1..Len(calls[t]) :
           i < j => PositionIn(sorted_methods[t], calls[t][i].method)
                      < PositionIn(sorted_methods[t], calls[t][j].method)

\* C4: a call orders the configured methods by descending tracked rate (0.5
\* without stats), equal rates in configured order, and invokes in that order
C4_OrderedByRate == [][C4_KeyStep]_vars /\ []C4_CallOrder

\* pubmed with api at 3/10 and browser, selenium both at 9/10: browser was
\* tried before api, selenium (no callable) stands between them
C4_Witness ==
  \E t \in Active :
    /\ impl = "manager"
    /\ sorted_methods[t] = <<"browser", "selenium", "api">>
    /\ Len(calls[t]) = 2
    /\ calls[t][1].method = "browser"
    /\ calls[t][2].method = "api"

RECURSIVE SumOver(_, _)
SumOver(S, f) ==
  IF S = {} THEN 0
  ELSE LET x == CHOOSE y \in S : TRUE IN f[x] + SumOver(S \ {x}, f)

\* how often the calls on db have completed an update of method m
\* (onlySuccess: counting the updates with success=True only)
RecordedFor(db, m, onlySuccess) ==
  SumOver({t \in Active : database_ids[t] = db},
          [t \in Tasks |->
             Cardinality({i \in 1..Len(recorded[t]) :
                            /\ recorded[t][i].method = m
                            /\ onlySuccess => recorded[t][i].success})])

\* how often the strategy m of db has returned or raised
\* (onlyHits: counting the non-empty lists only)
InvokedFor(db, m, onlyHits) ==
  SumOver({t \in Active : database_ids[t] = db},
          [t \in Tasks |->
             Cardinality({i \in 1..Len(calls[t]) :
                            /\ calls[t][i].method = m
                            /\ onlyHits => NonEmptyCall(calls[t][i])})])

\* no call on db is inside _update_success_rate
Quiet(db) ==
  \A t \in Active :
    database_ids[t] = db =>
      pc[t] \in {"queued", "sorting", "calling", "done", "raised"}

Once(db) == Cardinality({t \in Active : database_ids[t] = db}) = 1

RateInUnit(st) ==
  /\ st.rate.den > 0
  /\ 0 <= st.rate.num
  /\ st.rate.num <= st.rate.den

\* C6: for a pair without observations, n completed updates of which k
\* report success leave success = k, total = n and rate = k/n, and every
\* stored rate lies in [0, 1]
C6_TrackerExact ==
  impl = "manager" =>
    \A db \in DbIds, m \in Methods :
      /\ success_rates[db][m].kind = "stats" => RateInUnit(success_rates[db][m])
      /\ ( /\ rates0[db][m].kind = "absent"
           /\ Quiet(db)
           /\ RecordedFor(db, m, FALSE) >= 1 )
         => /\ success_rates[db][m].success = RecordedFor(db, m, TRUE)
            /\ success_rates[db][m].total = RecordedFor(db, m, FALSE)
            /\ success_rates[db][m].rate
                 = Quotient(RecordedFor(db, m, TRUE), RecordedFor(db, m, FALSE))

RECURSIVE ConcatReturned(_)
\* the lists of the calls 1..n that returned, one after the other
ConcatReturned(n) ==
  IF n = 0 THEN <<>>
  ELSE ConcatReturned(n - 1) \o (IF pc[n] = "done" THEN ret[n] ELSE <<>>)

\* C7: batch_search does not raise when search_database raises for a source,
\* and returns the ranked concatenation of what the other sources returned
C7_SurvivesSourceFailure ==
  /\ bpc # "raised"
  /\ (bpc = "returned" /\ \E t \in Active : pc[t] = "raised")
       => RankedOf(sorted_results, ConcatReturned(Len(database_ids)))

\* C8: batch_search returns after every call has finished, and returns the
\* records of the calls that returned, each as often as it was returned
C8_MergedAfterAll ==
  bpc = "returned" =>
    /\ \A t \in Active : Finished(t)
    /\ SameRecords(sorted_results, ConcatReturned(Len(database_ids)))

\* a pooled batch over the same source twice returns its records twice
C8_Witness ==
  /\ bpc = "returned"
  /\ impl = "manager"
  /\ Pooled
  /\ database_ids = <<"tga-cmi", "tga-cmi">>
  /\ Len(ret[1]) = 3
  /\ ret[2] = ret[1]
  /\ Len(sorted_results) = 6
  /\ \A x \in Range(ret[1]) : Count(sorted_results, x) = 2

\* C9: _sort_results returns the records of its input, 0.5 filled in where the
\* score is missing or not a number, in descending order of score, records of
\* equal score in input order
C9_RankedStable ==
  bpc = "ranked" =>
    /\ RankedOf(ret[1], results[1])
    /\ \A i, j \in DOMAIN ret[1] :
         (i < j /\ ret[1][i].relevanceScore.v = ret[1][j].relevanceScore.v)
           => ret[1][i].n < ret[1][j].n

\* scores [0.9, missing, 0.1] rank as [0.9, 0.5, 0.1]
C9_Witness ==
  /\ bpc = "ranked"
  /\ results[1] = << Record("pubmed", "api", 1, Score(9)),
                     Record("pubmed", "api", 2, Missing),
                     Record("pubmed", "api", 3, Score(1)) >>
  /\ ret[1] = << Record("pubmed", "api", 1, Score(9)),
                 Record("pubmed", "api", 2, Score(DefaultScore)),
                 Record("pubmed", "api", 3, Score(1)) >>

\* C10: when a pooled batch has returned, total has grown by the number of
\* invocations and success by the number of non-empty outcomes, for every
\* (source, strategy)
C10_NoLostUpdate ==
  (bpc = "returned" /\ impl = "manager" /\ Pooled) =>
    \A db \in DbIds, m \in Methods :
      /\ success_rates[db][m].total
           = rates0[db][m].total + InvokedFor(db, m, FALSE)
      /\ success_rates[db][m].success
           = rates0[db][m].success + InvokedFor(db, m, TRUE)

\* the requests issued in the 60 seconds up to the i-th one, itself included
\* to domain d
InWindow(d, i) ==
  {j \in DOMAIN lhist[d].issued :
     /\ lhist[d].issued[j] > lhist[d].issued[i] - Minute
     /\ lhist[d].issued[j] <= lhist[d].issued[i]}

\* C11: when every request is preceded by wait_if_needed and followed by
\* record_request, no trailing 60-second window holds more than
\* requests_per_minute requests
C11_WindowBounded ==
  \A d \in Named :
    lhist[d].disciplined =>
      \A i \in DOMAIN lhist[d].issued :
        Cardinality(InWindow(d, i)) <= requests_per_minute

\* C20: with requests_per_minute = 5 and 5 requests recorded at one instant,
\* the next wait_if_needed returns 60 seconds or more after the first of them
C20_SixthWaits ==
  \A d \in Named :
    ( /\ requests_per_minute = 5
      /\ lpc = "permitted"
      /\ domain = d
      /\ lhist[d].n = 5
      /\ lhist[d].burst )
    => now >= lhist[d].first + Minute

\* the 6th wait_if_needed has returned exactly one minute after the burst
C20_Witness ==
  \E d \in Named :
    /\ requests_per_minute = 5
    /\ lpc = "permitted"
    /\ domain = d
    /\ lhist[d].n = 5
    /\ lhist[d].burst
    /\ request_timestamps[d].ts = <<>>
    /\ now = lhist[d].first + Minute

\* the attempts made so far have all raised
AllRaised(n) == \A i \in 1..n : rhist.attempts[i].kind \in ErrorKinds

\* C12: execute_with_retry tries again after an exception of any kind, returns
\* the value of the first attempt that succeeds and makes no further attempt,
\* and after max_retries + 1 failed attempts raises an error that carries the
\* last one
C12_RetriesUntilExhausted ==
  LET n == Len(rhist.attempts)
  IN  /\ n <= max_retries + 1
      /\ \A i \in 1..n : rhist.attempts[i].attempt = i - 1
      /\ rpc = "trying" => (n = attempt /\ AllRaised(n))
      /\ rpc = "sleeping" => (n = attempt + 1 /\ n <= max_retries /\ AllRaised(n))
      /\ rpc = "returned" =>
           /\ n >= 1
           /\ AllRaised(n - 1)
           /\ rhist.attempts[n].kind = "ok"
           /\ rhist.outcome = [kind |-> "value", attempt |-> n - 1]
      /\ rpc = "raised" =>
           /\ n = max_retries + 1
           /\ AllRaised(n)
           /\ rhist.outcome.kind = "Exception"
           /\ rhist.outcome.last = rhist.attempts[n]
           /\ rhist.outcome.attempts = n

\* three attempts have raised errors of three kinds and the call has raised
C12_Witness ==
  /\ rpc = "raised"
  /\ max_retries = 2
  /\ Len(rhist.attempts) = 3
  /\ {rhist.attempts[i].kind : i \in 1..3} = ErrorKinds
  /\ rhist.outcome.last = [kind |-> rhist.attempts[3].kind, attempt |-> 2]

\* none of the methods that a call on db goes through has a callable
NoStrategy(db) ==
  \A i \in DOMAIN get_access_methods(db) :
    get_access_methods(db)[i] \notin API_MODULES[db]

\* C13: search_database on a source without a registered strategy invokes
\* nothing, does not raise and returns the empty list
C13_NoStrategyReturnsEmpty ==
  impl = "manager" =>
    \A t \in Active :
      NoStrategy(database_ids[t]) =>
        /\ pc[t] \in {"queued", "sorting", "done"}
        /\ calls[t] = <<>>
        /\ recorded[t] = <<>>
        /\ ret[t] = <<>>

\* a call on medsafe, configured with "browser" only and without an entry in
\* the registry, has returned
C13_Witness ==
  \E t \in Active :
    /\ impl = "manager"
    /\ database_ids[t] = "medsafe"
    /\ NoStrategy("medsafe")
    /\ pc[t] = "done"
    /\ ret[t] = <<>>
    /\ sorted_methods[t] = <<"browser">>

\* the manager at work found no file, or one it could not read
LoadFailed == life.loaded # "json"

\* close() has run and its save did not succeed
SaveFailed == life.saves > 0 /\ ~life.save_ok

\* C14: a manager whose stats file could not be loaded works with the empty
\* stats map, a save that fails in close() is logged and not raised, and
\* neither failure makes a source search or the batch fail
C14_PersistenceFailureHarmless ==
  /\ LoadFailed =>
       /\ rates0 = EmptyRates
       /\ bpc # "raised"
       /\ impl = "manager" => \A t \in Tasks : pc[t] # "raised"
  /\ life.closed # "raised"
  /\ SaveFailed /\ life.run = 1 =>
       /\ life.closed = "returned"
       /\ bpc = "returned"
       /\ sorted_results = _sort_results(all_results)

\* a manager that could not read its file has found records, and the save at
\* its close has failed and left an unreadable file
C14_Witness ==
  /\ life.run = 1
  /\ life.loaded = "corrupt"
  /\ SaveFailed
  /\ life.closed = "returned"
  /\ success_rates_file = CorruptFile
  /\ bpc = "returned"
  /\ Len(sorted_results) > 0
  /\ success_rates # EmptyRates

\* the order in which a manager with these stats tries the methods of db
OrderOf(rates, db) ==
  _sort_methods_by_success_rate(rates, db, get_access_methods(db))

\* C15: the stats that close() has saved are the stats of the manager
\* constructed next (same success, total and rate in every slot), so that it
\* orders the strategies as the outcomes of the run before tell; the module
\* level batch_search saves once, when the batch has returned
C15_StatsSurvive ==
  /\ life.saves <= 1
  /\ bpc \in {"idle", "running"} => life.saves = 0
  /\ life.saves = 1 /\ life.run = 1 => bpc = "returned" /\ collected = Active
  /\ bpc = "constructed" /\ life.save_ok =>
       /\ \A db \in DbIds, m \in Methods :
            /\ success_rates[db][m].kind = life.saved_rates[db][m].kind
            /\ success_rates[db][m].success = life.saved_rates[db][m].success
            /\ success_rates[db][m].total = life.saved_rates[db][m].total
            /\ success_rates[db][m].rate = life.saved_rates[db][m].rate
       /\ \A db \in DbIds : OrderOf(success_rates, db) = OrderOf(life.saved_rates, db)

\* a manager that started without stats has seen api fail and browser succeed
\* on pubmed and has saved; the manager of the next run tries browser first
C15_Witness ==
  /\ bpc = "constructed"
  /\ life.run = 2
  /\ life.save_ok
  /\ life.loaded = "json"
  /\ success_rates["pubmed"]["api"] = Stats(0, 1)
  /\ success_rates["pubmed"]["browser"] = Stats(1, 1)
  /\ OrderOf(success_rates, "pubmed")[1] = "browser"
  /\ OrderOf(EmptyRates, "pubmed")[1] = "api"

\* a rate below, and above, one half
BelowHalf(r) == ~RateGeq(r, Half)

AboveHalf(r) == ~RateGeq(Half, r)

\* the batch over pubmed and fda-drugs, by a manager without stats, in which
\* api failed on pubmed, browser then found three records and api found two
\* records on fda-drugs at once
Scenario ==
  /\ impl = "manager"
  /\ bpc = "returned"
  /\ rates0 = EmptyRates
  /\ database_ids = <<"pubmed", "fda-drugs">>
  /\ Len(calls[1]) = 2
  /\ calls[1][1].method = "api"
  /\ calls[1][1].records = <<>>
  /\ calls[1][2].method = "browser"
  /\ Len(calls[1][2].records) = 3
  /\ Len(calls[2]) = 1
  /\ calls[2][1].method = "api"
  /\ Len(calls[2][1].records) = 2

\* C16: the scenario's batch returns five records and leaves the rate of api
\* on pubmed below 0.5, the rate of browser on pubmed above 0.5 and the rate
\* of api on fda-drugs above 0.5
C16_Scenario ==
  Scenario =>
    /\ Len(sorted_results) = 5
    /\ success_rates["pubmed"]["api"].kind = "stats"
    /\ BelowHalf(success_rates["pubmed"]["api"].rate)
    /\ success_rates["pubmed"]["browser"].kind = "stats"
    /\ AboveHalf(success_rates["pubmed"]["browser"].rate)
    /\ success_rates["fda-drugs"]["api"].kind = "stats"
    /\ AboveHalf(success_rates["fda-drugs"]["api"].rate)
    /\ success_rates["tga-cmi"] = EmptyRates["tga-cmi"]

\* the scenario has happened, with api raising on pubmed
C16_Witness ==
  /\ Scenario
  /\ calls[1][1].raised
  /\ ~parallel
  /\ Len(sorted_results) = 5
  /\ success_rates["pubmed"]["api"] = Stats(0, 1)
  /\ success_rates["pubmed"]["browser"] = Stats(1, 1)
  /\ success_rates["fda-drugs"]["api"] = Stats(1, 1)

\* C17: a batch_search without source ids invokes no strategy and does not
\* complete as a search does
C17_EmptyListRejected ==
  impl = "manager" =>
    /\ database_ids = <<>> => \A t \in Tasks : calls[t] = <<>>
    /\ bpc = "returned" => database_ids # <<>>

\* the strategy invocations in progress on source db
InProgress(db) == {t \in Active : database_ids[t] = db /\ pc[t] = "calling"}

\* C18: at no time of a batch, sequential or pooled, are two strategy
\* invocations for one source id in progress
C18_OneInvocationPerSource ==
  impl = "manager" => \A db \in DbIds : Cardinality(InProgress(db)) <= 1

\* the source searches in progress
InSearch == {t \in Tasks : Running(t)}

\* the source searches that a batch may have in progress at once
Workers == IF parallel /\ Len(database_ids) > 1 THEN max_workers ELSE 1

\* one search_database task per entry of the list, never more in progress
\* than the batch has workers, and without the pool in list order
C19_Dispatch ==
  impl = "manager" /\ bpc \in {"running", "returned"} =>
    /\ \A t \in Tasks : t \in Active <=> pc[t] # "none"
    /\ Cardinality(InSearch) <= Workers
    /\ ~(parallel /\ Len(database_ids) > 1) =>
         \A t \in Active : pc[t] # "queued" => \A u \in Active : u < t => Finished(u)

\* a search is taken up only by a worker that has none in progress, and once
\* taken up it goes on to its end
C19_WorkerStep ==
  impl = "manager" /\ bpc = "running" =>
    \A t \in Active :
      /\ pc[t] = "queued" /\ pc'[t] # "queued" =>
           /\ Cardinality(InSearch) < Workers
           /\ \A u \in Active \ {t} : pc'[u] = pc[u]
      /\ Running(t) => pc'[t] # "queued" /\ pc'[t] # "none"
      /\ Finished(t) => pc'[t] = pc[t]

\* C19: batch_search uses the pool only when parallel is true and the list
\* has more than one entry; it dispatches one task per entry, has at most
\* max_workers source searches in progress, and a worker takes another source
\* only when the orchestration of its source has come to its end
C19_BoundedPool == [][C19_WorkerStep]_vars /\ []C19_Dispatch

\* a pooled batch has both of its workers in a source search while a batch
\* with one worker would have one
C19_Witness ==
  /\ impl = "manager"
  /\ bpc = "running"
  /\ parallel
  /\ max_workers = 2
  /\ Len(database_ids) = 2
  /\ database_ids[1] # database_ids[2]
  /\ Cardinality(InSearch) = 2

\* a step in which wait_if_needed runs and returns
WaitReturns == lpc = "idle" /\ lpc' = "permitted"

\* the list that wait_if_needed leaves holds at most requests_per_minute
\* timestamps, none of them 60 seconds old at its return
C21_WaitStep ==
  WaitReturns =>
    /\ Len(request_timestamps'[domain'].ts) <= requests_per_minute
    /\ \A i \in DOMAIN request_timestamps'[domain'].ts :
         request_timestamps'[domain'].ts[i] > now' - Minute

\* C21: right after wait_if_needed has returned the domain's list holds no
\* timestamp older than 60 seconds and at most requests_per_minute of them,
\* whatever calls of wait_if_needed and record_request came before, records
\* without a wait among them
C21_PrunedAfterWait == [][C21_WaitStep]_vars

\* wait_if_needed has returned after more requests than the limit were
\* recorded, some without a wait, and has shortened the list
C21_Witness ==
  /\ lpc = "permitted"
  /\ ~lhist[domain].disciplined
  /\ lhist[domain].n > requests_per_minute
  /\ Len(request_timestamps[domain].ts) < lhist[domain].n
  /\ Len(request_timestamps[domain].ts) > 0

\* the timestamps of domain d that count at time t have reached the limit
AtLimit(d, t) ==
  LimitReached(Len(LastMinute(request_timestamps[d].ts, t)), requests_per_minute)

\* the first wait_if_needed for a domain returns at the time it was called;
\* a call that sleeps does so with the list of its own domain at the limit;
\* no call changes the list of a domain other than its own
C22_DomainStep ==
  /\ WaitReturns /\ ~request_timestamps[domain'].known => now' = now
  /\ WaitReturns /\ now' > now => AtLimit(domain', now)
  /\ \A e \in Named : e # domain' => request_timestamps'[e] = request_timestamps[e]

\* C22: the first wait_if_needed for a domain not seen before returns
\* without sleeping whatever requests_per_minute is, and no call for one
\* domain sleeps because of, or changes, the timestamps of another
C22_PerDomain == [][C22_DomainStep]_vars

\* the first wait_if_needed for one domain has returned at once while the
\* list of another domain is at the limit
C22_Witness ==
  \E a \in Named, b \in Named :
    /\ a # b
    /\ lpc = "permitted"
    /\ domain = b
    /\ lhist[b].n = 0
    /\ request_timestamps[b] = [known |-> TRUE, ts |-> <<>>]
    /\ AtLimit(a, now)
    /\ lhist[a].burst
    /\ lhist[a].first = now

RECURSIVE Times(_, _, _)
\* x multiplied k times by b
Times(x, b, k) == IF k = 0 THEN x ELSE Times(x * b, b, k - 1)

\* the smaller of two numbers
Smaller(a, b) == IF a < b THEN a ELSE b

\* the delays before jitter of the handler with initial_delay = 1,
\* backoff_factor = 2 and max_delay = 10, attempt 0 first
ExampleDelays == <<1, 2, 4, 8, 10, 10>>

IsExample(h) == h.initial_delay = 1 /\ h.backoff_factor = 2 /\ h.max_delay = 10

\* C23: the delay before jitter of attempt k is the smaller of
\* initial_delay * backoff_factor^k and max_delay; it never exceeds max_delay
\* and does not decrease from one attempt to the next; with initial_delay = 1,
\* backoff_factor = 2 and max_delay = 10 the delays are 1, 2, 4, 8, 10, 10
C23_DelayCapped ==
  \A i \in DOMAIN rhist.sleeps :
    LET s == rhist.sleeps[i] IN
      /\ s.attempt = i - 1
      /\ s.delay = Smaller(Times(handler.initial_delay, handler.backoff_factor, s.attempt),
                           handler.max_delay)
      /\ s.delay <= handler.max_delay
      /\ i > 1 => rhist.sleeps[i - 1].delay <= s.delay
      /\ IsExample(handler) /\ i <= Len(ExampleDelays) => s.delay = ExampleDelays[i]

\* the handler of the example has slept six times, the last two times with
\* the delay at its cap
C23_Witness ==
  /\ IsExample(handler)
  /\ Len(rhist.sleeps) = 6
  /\ rhist.sleeps[4].delay = 8
  /\ rhist.sleeps[5].delay = 10
  /\ rhist.sleeps[6].delay = 10
  /\ rpc = "sleeping"

\* C30: execute_with_retry sleeps once after every failed attempt that another
\* attempt follows and at no other time: max_retries times when every attempt
\* fails, j times when attempt j + 1 is the first to succeed, never when the
\* first attempt succeeds, and never after the last attempt
C30_SleepsBetweenAttempts ==
  /\ rpc # "unused" =>
       /\ Len(rhist.sleeps) <= max_retries
       /\ \A i \in DOMAIN rhist.sleeps :
            /\ rhist.sleeps[i].attempt = i - 1
            /\ rhist.attempts[i].kind \in ErrorKinds
            /\ i <= attempt \/ rpc = "sleeping"
  /\ rpc = "trying" => Len(rhist.sleeps) = attempt /\ Len(rhist.attempts) = attempt
  /\ rpc = "sleeping" => Len(rhist.sleeps) = attempt + 1
  /\ rpc = "raised" =>
       /\ Len(rhist.sleeps) = max_retries
       /\ Len(rhist.attempts) = max_retries + 1
  /\ rpc = "returned" =>
       /\ Len(rhist.sleeps) = rhist.outcome.attempt
       /\ Len(rhist.attempts) = rhist.outcome.attempt + 1

\* the third attempt of a handler with three retries has succeeded after two
\* sleeps
C30_Witness ==
  /\ rpc = "returned"
  /\ max_retries = 3
  /\ rhist.outcome.attempt = 2
  /\ Len(rhist.sleeps) = 2
  /\ rhist.attempts[1].kind \in ErrorKinds
  /\ rhist.attempts[2].kind \in ErrorKinds
  /\ rhist.attempts[3].kind = "ok"

\* batch_search returns only when no search_database call and no strategy
\* invocation of the batch is in progress
C24_NoReturnBefore ==
  bpc = "returned" => \A t \in Active : pc[t] \in {"done", "raised"}

\* C24: a batch_search, sequential or pooled, whose strategy invocations all
\* come to an end returns; it has no timeout and cancels nothing, so it does
\* not return while an invocation is in progress
C24_Terminates == []C24_NoReturnBefore /\ (bpc = "running" ~> bpc = "returned")

\* a pooled batch with one worker has returned after three strategy
\* invocations
C24_Witness ==
  /\ bpc = "returned"
  /\ impl = "manager"
  /\ parallel
  /\ max_workers = 1
  /\ Len(database_ids) = 2
  /\ Len(calls[1]) = 2
  /\ Len(calls[2]) = 1

Mover(t) ==
  \/ pc'[t] # pc[t] /\ pc'[t] # "upd_lost"
  \/ ctx'[t] # ctx[t]

LastInvoked(t) == calls[t][Len(calls[t])].method

C26_FrameStep ==
  impl = "manager" /\ bpc = "running" /\ bpc' = "running" =>
    \A db \in DbIds, m \in Methods :
      success_rates'[db][m] # success_rates[db][m] =>
        \E t \in Active :
          /\ Mover(t)
          /\ database_ids[t] = db
          /\ calls[t] # <<>>
          /\ LastInvoked(t) = m

\* C26: a step of a search_database call changes the tracker entry of the
\* (source, strategy) pair the call has just invoked and no other: not the
\* entries of the strategies it has not invoked (those after its first
\* success, those without a callable) and not the entries of other sources
C26_OnlyInvokedChanged == [][C26_FrameStep]_vars

\* the same, for batches in which no two calls work on one source
C26_Uncontended ==
  [][(\A t \in Active : ~Contended(t)) => C26_FrameStep]_vars

\* the strategies search_database(db_id) can invoke
Invocable(db_id) ==
  {get_access_methods(db_id)[i] : i \in 1..Len(get_access_methods(db_id))}
    \cap API_MODULES[db_id]

Invoked(t) == {calls[t][i].method : i \in 1..Len(calls[t])}

\* C27: search_database(db_id) invokes only strategies that are both in
\* get_access_methods(db_id) and in API_MODULES[db_id], and a call that
\* reports that all methods failed has invoked all of these and no other
C27_InvocableStrategies ==
  impl = "manager" =>
    \A t \in Active :
      /\ Invoked(t) \subseteq Invocable(database_ids[t])
      /\ pc[t] = "done" /\ ret[t] = <<>> =>
           Invoked(t) = Invocable(database_ids[t])

\* a tga-cmi search that has reported failure after browser and selenium,
\* with browser_automation registered and never invoked; and a pubmed search
\* that has passed over selenium, configured without a callable
C27_Witness ==
  /\ impl = "manager"
  /\ Len(database_ids) = 2
  /\ database_ids[1] = "tga-cmi" /\ database_ids[2] = "pubmed"
  /\ pc[1] = "done" /\ ret[1] = <<>>
  /\ Invoked(1) = {"browser", "selenium"}
  /\ "browser_automation" \in API_MODULES["tga-cmi"] \ Invoked(1)
  /\ pc[2] = "done" /\ ret[2] = <<>>
  /\ Invoked(2) = {"api", "browser"}
  /\ "selenium" \notin API_MODULES["pubmed"]
  /\ \E i \in 1..3 : get_access_methods("pubmed")[i] = "selenium"

NoDuplicates(ids) == \A i, j \in DOMAIN ids : i # j => ids[i] # ids[j]

\* the callables of db_id in the order in which a call that finds the tracker
\* rates tries them
OrderFor(rates, db_id) ==
  LET HasCallable(m) == m \in API_MODULES[db_id]
  IN  SelectSeq(_sort_methods_by_success_rate(rates, db_id,
                                              get_access_methods(db_id)),
                HasCallable)

RECURSIVE AloneFrom(_, _, _, _, _)
\* one search_database run alone on the tracker rates, from the k-th callable
\* of order on, with the outcomes cs: the tracker it leaves, the records of
\* its hit, how it ends and after how many invocations
AloneFrom(rates, db_id, order, cs, k) ==
  IF k > Len(order)
    THEN [rates |-> rates, hit |-> <<>>, pc |-> "done", n |-> k - 1]
  ELSE IF k > Len(cs) \/ cs[k].method # order[k]
    THEN [rates |-> rates, hit |-> <<>>, pc |-> "other", n |-> k]
  ELSE IF rates[db_id][order[k]].kind = "number"
    THEN [rates |-> rates, hit |-> <<>>, pc |-> "raised", n |-> k]
  ELSE LET s1 == rates[db_id][order[k]].success
                   + IF NonEmptyCall(cs[k]) THEN 1 ELSE 0
           t1 == rates[db_id][order[k]].total + 1
           after == [rates EXCEPT ![db_id][order[k]] = Stats(s1, t1)]
       IN  IF NonEmptyCall(cs[k])
             THEN [rates |-> after, hit |-> cs[k].records, pc |-> "done", n |-> k]
             ELSE AloneFrom(after, db_id, order, cs, k + 1)

RECURSIVE OneByOne(_, _)
\* the calls of the batch from the i-th on, run one after the other in list
\* order with the outcomes their strategies had: the tracker they leave, the
\* records they find, and whether each call of the batch ended that way
OneByOne(rates, i) ==
  IF i > Len(database_ids) THEN [rates |-> rates, found |-> <<>>, same |-> TRUE]
  ELSE LET one == AloneFrom(rates, database_ids[i],
                            OrderFor(rates, database_ids[i]), calls[i], 1)
           rest == OneByOne(one.rates, i + 1)
       IN  [rates |-> rest.rates,
            found |-> one.hit \o rest.found,
            same  |-> /\ pc[i] = one.pc
                      /\ Len(calls[i]) = one.n
                      /\ pc[i] = "done" => RankedOf(ret[i], one.hit)
                      /\ rest.same]

\* C28: a batch over distinct source ids, pooled or sequential, ends as its
\* calls run one after the other on the same initial tracker with the same
\* outcomes of the strategies: the same success, total and rate in every
\* slot, the same calls and the same records, ranked by descending score
C28_PooledAsSequential ==
  impl = "manager" /\ bpc = "returned" /\ NoDuplicates(database_ids) =>
    LET alone == OneByOne(rates0, 1)
    IN  /\ alone.same
        /\ success_rates = alone.rates
        /\ RankedOf(sorted_results, alone.found)

\* a pooled batch over two sources with two workers whose second call was
\* collected first, both with records, the first after a strategy that
\* failed
C28_Witness ==
  /\ impl = "manager" /\ bpc = "returned"
  /\ Pooled /\ max_workers = 2
  /\ database_ids = <<"tga-cmi", "pubmed">>
  /\ Len(calls[1]) = 2 /\ ret[1] # <<>>
  /\ Len(calls[2]) = 1 /\ ret[2] # <<>>
  /\ all_results = ret[2] \o ret[1]
  /\ success_rates # rates0

\* a step of execute_with_retry
Retrying == rpc \in {"trying", "sleeping"}

C29_ScrapeStep ==
  /\ WaitReturns => rpc = "ready" /\ rpc' = "ready"
  /\ rpc = "ready" /\ rpc' = "trying" => lpc \in {"permitted", "unlimited"}
  /\ Retrying =>
       /\ lpc' = lpc
       /\ request_timestamps' = request_timestamps
  /\ \A d \in Named :
       Len(request_timestamps'[d].ts) > Len(request_timestamps[d].ts) =>
         /\ lpc = "permitted" /\ rpc = "returned" /\ d = domain
         /\ Len(request_timestamps'[d].ts) = Len(request_timestamps[d].ts) + 1

C29_Counts ==
  \A d \in Named :
    /\ lhist[d].n = lhist[d].scraped
    /\ lhist[d].http >= lhist[d].scraped + lhist[d].failed

\* C29: a scrape_with_requests call with rate limiting calls wait_if_needed
\* once, before the first attempt, and nothing of the limiter while the retry
\* handler is at work; it records one timestamp when execute_with_retry has
\* returned and none when it has raised, so that the timestamps recorded for
\* a domain are as many as its successful scrape calls, however many HTTP
\* requests were sent
C29_OneRecordPerScrape == [][C29_ScrapeStep]_vars /\ []C29_Counts

\* a domain with a scrape that succeeded at its third attempt and one that
\* failed after three: six requests sent, one timestamp
C29_Witness ==
  \E d \in Named :
    /\ lhist[d].scraped = 1
    /\ lhist[d].failed = 1
    /\ lhist[d].http = 6
    /\ lhist[d].n = 1
    /\ Len(request_timestamps[d].ts) = 1
    /\ lpc = "idle"

====
